---- MODULE Spec2Model ----
(***************************************************************************)
(* Model of modules/store/src/reducer_creator.ts: the association builder  *)
(* `on` and the dispatch-table builder `createReducer`.                    *)
(*                                                                         *)
(* Values.  A state is a sequence of strings; the JavaScript value         *)
(* `undefined` is the one-element sequence Undefined.  An action is a      *)
(* record [type |-> t].  A transition function is a value                  *)
(* [kind |-> "function", name |-> n]; what each name computes is given by  *)
(* CallReducer.  An action creator is a value                              *)
(* [kind |-> "creator", type |-> t].  Pairing objects live in a heap (the  *)
(* sequence `pairings`) and are referred to by index, because the closures *)
(* that createReducer builds capture the pairing object itself.            *)
(***************************************************************************)
EXTENDS Integers, Sequences, FiniteSets, TLC

\* ---------------------------------------------------------------- bounds
MaxOns == 3         \* pairings built with on() before createReducer is called
MaxIds == MaxOns    \* identifiers listed by all the pairings together
MaxReplaced == 1    \* pairing objects the program changes after createReducer

\* ---------------------------------------------------------------- inputs
Types == {"X", "Y"}
Undefined == <<"undefined">>
S0 == <<"s0">>
S1 == <<"s1">>
InitialStates == {S0}
InputStates == {Undefined, S1}
Actions == [type : Types]
ReenterType == "Y"
Reducers == {"f", "g", "u"}
ReentrantReducers == {"f", "r"}
Replacements == {"u"}

Creator(t) == [kind |-> "creator", type |-> t]
Fn(n) == [kind |-> "function", name |-> n]
NoReducer == [kind |-> "none"]

VARIABLES
    pairings,      \* heap of pairing objects, in creation order
    declared,      \* the pairings as they were when createReducer ran
    map,           \* the dispatch table captured by the reducer
    initialState,  \* the initialState captured by the reducer
    built,         \* TRUE once createReducer has returned
    onArgs,        \* the argument list of the latest call of on
    first,         \* the first invocation of the reducer
    last           \* the latest invocation of the reducer after the first

vars == <<pairings, declared, map, initialState, built, onArgs, first, last>>

NoCall == [made |-> FALSE, state |-> Undefined, action |-> [type |-> "X"],
           val |-> Undefined, calls |-> <<>>]

\* ------------------------------------------------------------------- on
\* creator.type; a value without a `type` property yields undefined
TypeOf(v) == IF v.kind = "creator" THEN v.type ELSE "undefined"

\* args.pop()
Pop(args) == args[Len(args)]

\* mutant: the transition function is read but never removed from args
PoppedKeepsAll(args) == args

\* args after args.pop()
Popped(args) == SubSeq(args, 1, Len(args) - 1)

\* on(...args): { reducer, types }
on(args) ==
    LET reducer == Pop(args)
        rest == Popped(args)
        types == [i \in 1..Len(rest) |-> TypeOf(rest[i])]
    IN  [reducer |-> reducer, types |-> types]

\* ---------------------------------------------------------- createReducer
MapHas(m, t) == t \in DOMAIN m
MapGet(m, t) == IF MapHas(m, t) THEN m[t] ELSE NoReducer
MapSet(m, t, v) == [x \in DOMAIN m \cup {t} |-> IF x = t THEN v ELSE m[x]]
EmptyMap == [x \in {} |-> NoReducer]

\* `if (existingReducer)`: a function is truthy, undefined is not
Truthy(r) == r.kind # "none"

\* (state, action) => on.reducer(existingReducer(state, action), action)
\* The closure captures the variables `on` and `existingReducer`.
newReducer(i, existingReducer) ==
    [kind |-> "composed", on |-> i, existing |-> existingReducer]

\* mutant: a later pairing replaces the handler instead of wrapping it
RegisterOverwrite(m, heap, i, type) == MapSet(m, type, heap[i].reducer)

\* mutant: a pairing that listed the identifier already is not registered again
RegisterOnce(m, heap, i, type) ==
    LET existingReducer == MapGet(m, type)
        mine == \/ existingReducer.kind = "function" /\ existingReducer = heap[i].reducer
                \/ existingReducer.kind = "composed" /\ existingReducer.on = i
    IN  IF Truthy(existingReducer)
        THEN IF mine THEN m ELSE MapSet(m, type, newReducer(i, existingReducer))
        ELSE MapSet(m, type, heap[i].reducer)

\* body of the inner loop for one `type` of the pairing at heap index i
Register(m, heap, i, type) ==
    LET existingReducer == MapGet(m, type)
    IN  IF Truthy(existingReducer)
        THEN MapSet(m, type, newReducer(i, existingReducer))
        ELSE MapSet(m, type, heap[i].reducer)

\* for (const type of on.types) ..., from position j on
RECURSIVE RegisterTypes(_, _, _, _)

\* mutant: a pairing without identifiers is taken to handle every identifier
RegisterTypesCatchAll(m, heap, i, j) ==
    LET RECURSIVE All(_, _)
        All(mm, ts) == IF ts = {} THEN mm
                       ELSE LET t == CHOOSE x \in ts : TRUE
                            IN  All(Register(mm, heap, i, t), ts \ {t})
    IN  IF Len(heap[i].types) = 0 THEN All(m, Types)
        ELSE IF j > Len(heap[i].types) THEN m
        ELSE RegisterTypes(Register(m, heap, i, heap[i].types[j]), heap, i, j + 1)

RegisterTypes(m, heap, i, j) ==
    IF j > Len(heap[i].types) THEN m
    ELSE RegisterTypes(Register(m, heap, i, heap[i].types[j]), heap, i, j + 1)

\* for (const on of ons) ..., from position k of the argument list on
RECURSIVE BuildMap(_, _, _, _)
BuildMap(m, heap, ons, k) ==
    IF k > Len(ons) THEN m
    ELSE BuildMap(RegisterTypes(m, heap, ons[k], 1), heap, ons, k + 1)

\* the table createReducer(initialState, ...ons) closes over
createReducer(heap, ons) == BuildMap(EmptyMap, heap, ons, 1)

\* ------------------------------------------------------- the reducer
\* mutant: no default value for the state parameter
DefaultStateNever(state, s0) == state

\* `state: S = initialState`
DefaultState(state, s0) == IF state = Undefined THEN s0 ELSE state

Call(name, state, action) == [fn |-> name, state |-> state, type |-> action.type]

\* the "f" and "g" of the model: (s, a) => [...(s ?? ['undefined']), name, a.type]
Log(name, state, action) == state \o <<name, action.type>>

RECURSIVE CallReducer(_, _, _, _, _, _)
RECURSIVE Apply(_, _, _, _, _, _)
RECURSIVE Reducer(_, _, _, _, _)

\* The transition functions of the model, each returning its value and the
\* calls of transition functions it caused:
\*   f, g : Log
\*   u    : (s, a) => undefined
\*   r    : (s, a) => a.type === ReenterType ? s : reducer(s, {type: ReenterType})
CallReducer(fn, state, action, m, heap, s0) ==
    LET me == <<Call(fn.name, state, action)>>
    IN  CASE fn.name = "u" -> [val |-> Undefined, calls |-> me]
          [] fn.name = "r" ->
               IF action.type = ReenterType
               THEN [val |-> state, calls |-> me]
               ELSE LET in == Reducer(m, heap, s0, state, [type |-> ReenterType])
                    IN  [val |-> in.val, calls |-> me \o in.calls]
          [] OTHER -> [val |-> Log(fn.name, state, action), calls |-> me]

\* mutant: the later pairing's function runs before the earlier one's
ApplyReversed(r, state, action, m, heap, s0) ==
    IF r.kind = "composed"
    THEN LET outer == CallReducer(heap[r.on].reducer, state, action, m, heap, s0)
             inner == Apply(r.existing, outer.val, action, m, heap, s0)
         IN  [val |-> inner.val, calls |-> outer.calls \o inner.calls]
    ELSE CallReducer(r, state, action, m, heap, s0)

\* mutant: the initial state is substituted between composed handlers too
ApplyDefaulting(r, state, action, m, heap, s0) ==
    IF r.kind = "composed"
    THEN LET inner == Apply(r.existing, state, action, m, heap, s0)
             outer == CallReducer(heap[r.on].reducer, DefaultState(inner.val, s0),
                                  action, m, heap, s0)
         IN  [val |-> DefaultState(outer.val, s0), calls |-> inner.calls \o outer.calls]
    ELSE CallReducer(r, state, action, m, heap, s0)

\* invoking a value held by the table
Apply(r, state, action, m, heap, s0) ==
    IF r.kind = "composed"
    THEN LET inner == Apply(r.existing, state, action, m, heap, s0)
             outer == CallReducer(heap[r.on].reducer, inner.val, action, m, heap, s0)
         IN  [val |-> outer.val, calls |-> inner.calls \o outer.calls]
    ELSE CallReducer(r, state, action, m, heap, s0)

\* mutant: an action without handler resets the state
ReducerResetting(m, heap, s0, stateArg, action) ==
    LET state == DefaultState(stateArg, s0)
        reducer == MapGet(m, action.type)
    IN  IF Truthy(reducer)
        THEN Apply(reducer, state, action, m, heap, s0)
        ELSE [val |-> s0, calls |-> <<>>]

\* function (state = initialState, action) { ... }
Reducer(m, heap, s0, stateArg, action) ==
    LET state == DefaultState(stateArg, s0)
        reducer == MapGet(m, action.type)
    IN  IF Truthy(reducer)
        THEN Apply(reducer, state, action, m, heap, s0)
        ELSE [val |-> state, calls |-> <<>>]

\* ------------------------------------------------------------- actions
TotalIds(heap) ==
    LET RECURSIVE Sum(_)
        Sum(k) == IF k = 0 THEN 0 ELSE Len(heap[k].types) + Sum(k - 1)
    IN  Sum(Len(heap))

RECURSIVE SeqsUpTo(_, _)
SeqsUpTo(S, n) ==
    IF n = 0 THEN {<<>>}
    ELSE LET shorter == SeqsUpTo(S, n - 1)
         IN  shorter \cup {Append(q, x) : q \in shorter, x \in S}

Init ==
    /\ pairings = <<>>
    /\ declared = <<>>
    /\ map = EmptyMap
    /\ initialState = Undefined
    /\ built = FALSE
    /\ onArgs = <<>>
    /\ first = NoCall
    /\ last = NoCall

\* the program evaluates on(c1, ..., cn, name)
OnWith(names) ==
    /\ ~built
    /\ Len(pairings) < MaxOns
    /\ \E ts \in SeqsUpTo(Types, MaxIds - TotalIds(pairings)), n \in names :
          LET creators == [i \in 1..Len(ts) |-> Creator(ts[i])]
              args == Append(creators, Fn(n))
          IN  /\ pairings' = Append(pairings, on(args))
              /\ onArgs' = args
    /\ UNCHANGED <<declared, map, initialState, built, first, last>>

On == OnWith(Reducers)

OnReentrant == OnWith(ReentrantReducers)

\* the program evaluates createReducer(s0, ...pairings)
CreateReducer ==
    /\ ~built
    /\ \E s0 \in InitialStates : initialState' = s0
    /\ map' = createReducer(pairings, [i \in 1..Len(pairings) |-> i])
    /\ declared' = pairings
    /\ built' = TRUE
    /\ UNCHANGED <<pairings, onArgs, first, last>>

\* the program evaluates reducer(state, action)
Dispatch ==
    /\ built
    /\ \E state \in InputStates, action \in Actions :
          LET out == Reducer(map, pairings, initialState, state, action)
              call == [made |-> TRUE, state |-> state, action |-> action,
                       val |-> out.val, calls |-> out.calls]
          IN  IF first.made
              THEN last' = call /\ first' = first
              ELSE first' = call /\ last' = last
    /\ UNCHANGED <<pairings, declared, map, initialState, built, onArgs>>

\* the pairing objects that no longer are what createReducer was given
Replaced(heap, decl) == {i \in 1..Len(heap) : heap[i] # decl[i]}

\* the program assigns to a property of a pairing object it still holds
Mutate ==
    /\ built
    /\ \E i \in 1..Len(pairings) :
          \/ \E n \in Replacements :
                pairings' = [pairings EXCEPT ![i].reducer = Fn(n)]
          \/ pairings' = [pairings EXCEPT ![i].types = <<>>]
    /\ pairings' # pairings
    /\ Cardinality(Replaced(pairings', declared)) <= MaxReplaced
    /\ UNCHANGED <<declared, map, initialState, built, onArgs, first, last>>

Next == On \/ CreateReducer \/ Dispatch
Spec == Init /\ [][Next]_vars

NextReentrant == OnReentrant \/ CreateReducer \/ Dispatch
SpecReentrant == Init /\ [][NextReentrant]_vars

NextMutable == On \/ CreateReducer \/ Dispatch \/ Mutate
SpecMutable == Init /\ [][NextMutable]_vars

\* ------------------------------------------------- what the claims refer to
\* the invocations of the reducer recorded so far
CallsMade == {c \in {first, last} : c.made}

\* how often a list of identifiers names t
Count(types, t) == Cardinality({j \in 1..Len(types) : types[j] = t})

\* the state the first handler is due when the reducer is given c.state
EntryState(c) == IF c.state = Undefined THEN initialState ELSE c.state

\* what the transition functions f, g and u return
Value(name, state, action) ==
    IF name = "u" THEN Undefined ELSE state \o <<name, action.type>>

\* the transition functions of the first k pairings of decl that list t, in
\* declaration order, one entry per listing
RECURSIVE HandlersOf(_, _, _)
HandlersOf(decl, t, k) ==
    IF k = 0 THEN <<>>
    ELSE HandlersOf(decl, t, k - 1)
            \o [j \in 1..Count(decl[k].types, t) |-> decl[k].reducer.name]

\* the functions named by hs applied left to right, each to the previous output
RECURSIVE Chain(_, _, _)
Chain(hs, state, action) ==
    IF hs = <<>> THEN [val |-> state, calls |-> <<>>]
    ELSE LET n == Len(hs)
             before == Chain(SubSeq(hs, 1, n - 1), state, action)
         IN  [val |-> Value(hs[n], before.val, action),
              calls |-> Append(before.calls, Call(hs[n], before.val, action))]

AllOns(heap) == [i \in 1..Len(heap) |-> i]

\* the indices 1..n without i, in order
Without(n, i) == [k \in 1..(n - 1) |-> IF k < i THEN k ELSE k + 1]

\* ------------------------------------------------------------------ claims

\* C1: a reducer built from two pairings that both list identifier t, with
\* functions f then g, returns g(f(s, a), a) for a defined state s and an
\* action a of identifier t: f is called with (s, a), g with (f(s, a), a).
C1_SharedIdentifierComposes ==
    \A c \in CallsMade :
        LET t == c.action.type
        IN  ( /\ Len(declared) = 2
              /\ Count(declared[1].types, t) = 1
              /\ Count(declared[2].types, t) = 1
              /\ c.state # Undefined )
            => LET f == declared[1].reducer.name
                   g == declared[2].reducer.name
                   mid == Value(f, c.state, c.action)
               IN  /\ c.val = Value(g, mid, c.action)
                   /\ c.calls = <<Call(f, c.state, c.action), Call(g, mid, c.action)>>

C1_Witness ==
    /\ first.made
    /\ declared = <<[reducer |-> Fn("f"), types |-> <<"X">>],
                    [reducer |-> Fn("g"), types |-> <<"X">>]>>
    /\ first.state = S1
    /\ first.action.type = "X"
    /\ first.val = <<"s1", "f", "X", "g", "X">>

\* C2 as stated: for an action whose identifier no pairing lists, the reducer
\* calls no transition function and returns the state it was given.
C2_UnknownReturnsInput ==
    \A c \in CallsMade :
        HandlersOf(declared, c.action.type, Len(declared)) = <<>>
        => c.calls = <<>> /\ c.val = c.state

\* C2 amended: for an action whose identifier no pairing lists, the reducer
\* calls no transition function and returns the state it was given, or the
\* initial state when the state it was given is undefined.
C2_UnknownReturnsEntryState ==
    \A c \in CallsMade :
        HandlersOf(declared, c.action.type, Len(declared)) = <<>>
        => c.calls = <<>> /\ c.val = EntryState(c)

C2_Witness ==
    /\ last.made
    /\ Len(declared) > 0
    /\ \A i \in 1..Len(declared) :
          Len(declared[i].types) > 0 /\ Count(declared[i].types, "Y") = 0
    /\ first.action.type = "Y" /\ first.state = S1 /\ first.val = S1
    /\ last.action.type = "Y" /\ last.state = Undefined /\ last.val = initialState

\* C3: the reducer given undefined behaves as the reducer given the initial
\* state: same result and same calls; without handler the result is the
\* initial state, with a handler the first handler receives the initial state.
C3_UndefinedIsInitialState ==
    \A c \in CallsMade :
        c.state = Undefined
        => LET same == Reducer(map, pairings, initialState, initialState, c.action)
               hs == HandlersOf(declared, c.action.type, Len(declared))
           IN  /\ c.val = same.val
               /\ c.calls = same.calls
               /\ hs = <<>> => c.val = initialState
               /\ hs # <<>> => c.calls # <<>> /\ c.calls[1].state = initialState

C3_Witness ==
    /\ first.made
    /\ first.state = Undefined
    /\ initialState = S0
    /\ first.calls # <<>>
    /\ first.calls[1].state = S0
    /\ first.val = <<"s0", "f", "X">>

\* C4: for every identifier t the table holds a handler exactly when some
\* pairing lists t, and dispatching t applies the functions of the pairings
\* that list t, in declaration order, each to the previous output, and no other.
C4_TableCombinesAllInOrder ==
    /\ built => \A t \in Types :
                   MapHas(map, t) <=> HandlersOf(declared, t, Len(declared)) # <<>>
    /\ \A c \in CallsMade :
          LET due == Chain(HandlersOf(declared, c.action.type, Len(declared)),
                           EntryState(c), c.action)
          IN  c.val = due.val /\ c.calls = due.calls

C4_Witness ==
    /\ first.made
    /\ Len(declared) = 3
    /\ \A k \in 1..3 : Count(declared[k].types, first.action.type) = 1
    /\ declared[1].reducer # declared[2].reducer
    /\ declared[2].reducer # declared[3].reducer
    /\ Len(first.calls) = 3

\* C5: on(d1, ..., dn, f) with n >= 1 returns the pairing whose function is f
\* and whose identifier list is <<d1.type, ..., dn.type>>.
C5_OnPairsTypesWithReducer ==
    Len(onArgs) >= 2
    => LET p == pairings[Len(pairings)]
           n == Len(onArgs) - 1
       IN  /\ p.reducer = onArgs[n + 1]
           /\ Len(p.types) = n
           /\ \A i \in 1..n : p.types[i] = onArgs[i].type

C5_Witness ==
    /\ onArgs = <<Creator("X"), Creator("Y"), Fn("f")>>
    /\ pairings[Len(pairings)] = [reducer |-> Fn("f"), types |-> <<"X", "Y">>]

\* C7 as stated: every invocation returns what the pairings as they were when
\* createReducer ran determine, whatever was replaced in them afterwards.
C7_ResultFixedAtConstruction ==
    \A c \in CallsMade :
        c.val = Reducer(createReducer(declared, AllOns(declared)), declared,
                        initialState, c.state, c.action).val

\* C8: on(f) returns a pairing without identifiers, and a reducer built with
\* such a pairing has the table, the results and the calls of the reducer
\* built without it; f is not called unless another pairing brings it.
C8_EmptyPairingRegistersNothing ==
    /\ Len(onArgs) = 1 =>
          pairings[Len(pairings)] = [reducer |-> onArgs[1], types |-> <<>>]
    /\ \A i \in 1..Len(declared) :
          declared[i].types = <<>>
          => LET m == createReducer(declared, Without(Len(declared), i))
             IN  /\ built => map = m
                 /\ \A c \in CallsMade :
                       LET due == Reducer(m, declared, initialState, c.state, c.action)
                       IN  /\ c.val = due.val
                           /\ c.calls = due.calls
                           /\ (\A j \in 1..Len(declared) :
                                  declared[j].types # <<>>
                                  => declared[j].reducer # declared[i].reducer)
                              => \A k \in 1..Len(c.calls) :
                                    c.calls[k].fn # declared[i].reducer.name

C8_Witness ==
    /\ first.made
    /\ declared = <<[reducer |-> Fn("g"), types |-> <<>>],
                    [reducer |-> Fn("f"), types |-> <<"X">>]>>
    /\ first.action.type = "X"
    /\ first.state = S1
    /\ first.val = <<"s1", "f", "X">>

\* C9: when one pairing lists identifier t k >= 2 times and no other pairing
\* lists t, dispatching t applies that pairing's function k times in sequence.
C9_RepeatedIdentifierRepeatsFunction ==
    \A c \in CallsMade : \A i \in 1..Len(declared) :
        LET t == c.action.type
            k == Count(declared[i].types, t)
            f == declared[i].reducer.name
        IN  ( /\ k >= 2
              /\ \A j \in 1..Len(declared) : j # i => Count(declared[j].types, t) = 0 )
            => /\ Len(c.calls) = k
               /\ \A n \in 1..k : c.calls[n].fn = f
               /\ c.val = Chain([n \in 1..k |-> f], EntryState(c), c.action).val
               /\ k = 2 => c.val = Value(f, Value(f, EntryState(c), c.action), c.action)

C9_Witness ==
    /\ first.made
    /\ declared = <<[reducer |-> Fn("f"), types |-> <<"X", "X">>]>>
    /\ first.state = S1
    /\ first.action.type = "X"
    /\ first.val = <<"s1", "f", "X", "f", "X">>

\* C10: between composed handlers nothing is substituted: each handler after
\* the first receives what the previous one returned, undefined included, and
\* the reducer returns what the last handler returned, undefined included.
C10_NoSubstitutionBetweenHandlers ==
    \A c \in CallsMade :
        LET n == Len(c.calls)
        IN  /\ \A k \in 2..n :
                  c.calls[k].state = Value(c.calls[k - 1].fn, c.calls[k - 1].state, c.action)
            /\ n > 0 => c.val = Value(c.calls[n].fn, c.calls[n].state, c.action)

C10_Witness ==
    /\ first.made
    /\ Len(declared) = 3
    /\ declared[1].reducer = Fn("u")
    /\ declared[2].reducer = Fn("f")
    /\ declared[3].reducer = Fn("u")
    /\ first.state = S1
    /\ Len(first.calls) = 3
    /\ first.calls[2] = Call("f", Undefined, first.action)
    /\ first.calls[3].state = <<"undefined", "f", first.action.type>>
    /\ first.val = Undefined

====
